---- MODULE Spec2Model ----
(***************************************************************************)
(* Bifrost sender (src/main.py): one run fetches the node list from the    *)
(* monitoring API, turns every node record into a 9-entry varbind set and  *)
(* sends one SNMP trap per node, sequentially, sleeping 20 ms after each   *)
(* delivered trap.  Any exception ends the run in the handler of the       *)
(* __main__ block.                                                         *)
(*                                                                         *)
(* Text that the program transforms (record fields, str(), lower(),        *)
(* f-strings over numbers) is a sequence of one-character strings; text    *)
(* that is only copied (OIDs, log and exception messages) is a string.     *)
(***************************************************************************)
EXTENDS Integers, Sequences, FiniteSets, TLC

\* ------------------------------------------------------------- bounds ---
MaxNodes == 3        \* longest node list the API returns
MaxLatency == 1      \* largest network latency (ms) of the fetch or a send

\* ---------------------------------------------------------- constants ---
SLEEP_MS == 20
HTTP_OK == 200
HTTP_UNAUTHORIZED == 401
ENTERPRISE_TRAP_OID == "1.3.6.1.4.1.11307.10"
DEFAULT_LOCATION == <<"u", "n", "k", "n", "o", "w", "n">>

\* --------------------------------------------------------------- text ---
Digits == <<"0", "1", "2", "3", "4", "5", "6", "7", "8", "9">>
UpperAlpha == <<"A", "B", "C", "D", "E", "F", "G", "H", "I", "J", "K", "L", "M",
                "N", "O", "P", "Q", "R", "S", "T", "U", "V", "W", "X", "Y", "Z">>
LowerAlpha == <<"a", "b", "c", "d", "e", "f", "g", "h", "i", "j", "k", "l", "m",
                "n", "o", "p", "q", "r", "s", "t", "u", "v", "w", "x", "y", "z">>

IsDigit(c) == \E d \in 1..10 : Digits[d] = c
DigitVal(c) == (CHOOSE d \in 1..10 : Digits[d] = c) - 1

\* str.lower() of one character, then of a text
LowerChar(c) ==
  IF \E j \in 1..26 : UpperAlpha[j] = c
    THEN LowerAlpha[CHOOSE j \in 1..26 : UpperAlpha[j] = c]
    ELSE c
Lower(s) == [j \in 1..Len(s) |-> LowerChar(s[j])]

\* str(n) of a natural number, then of any integer
RECURSIVE NatToStr(_)
NatToStr(n) ==
  IF n < 10 THEN <<Digits[n + 1]>>
            ELSE NatToStr(n \div 10) \o <<Digits[(n % 10) + 1]>>
IntToStr(n) == IF n < 0 THEN <<"-">> \o NatToStr(0 - n) ELSE NatToStr(n)

\* value of a non-empty run of decimal digits
RECURSIVE DigitsToNat(_)
DigitsToNat(s) ==
  IF Len(s) = 0 THEN 0
  ELSE 10 * DigitsToNat(SubSeq(s, 1, Len(s) - 1)) + DigitVal(s[Len(s)])

AllDigits(s) == Len(s) > 0 /\ \A j \in 1..Len(s) : IsDigit(s[j])
HasSign(s) == Len(s) > 0 /\ s[1] \in {"+", "-"}
Unsigned(s) == IF HasSign(s) THEN SubSeq(s, 2, Len(s)) ELSE s

\* ------------------------------------------------------ JSON values ---
\* A decoded JSON value of a record field: k is its kind, s its text when
\* it is a string, n its number when it is an integer.
Absent == [k |-> "absent", s |-> <<>>, n |-> 0]
Null == [k |-> "null", s |-> <<>>, n |-> 0]
Str(t) == [k |-> "str", s |-> t, n |-> 0]
Int_(m) == [k |-> "int", s |-> <<>>, n |-> m]

\* (a default that also replaces a null)
GetOrNull(nodo, key, default) == IF nodo[key] \in {Absent, Null} THEN default ELSE nodo[key]

\* dict.get(key) / dict.get(key, default): a missing key gives None or the
\* default, a present key gives its value (None for JSON null)
Get(nodo, key) == IF nodo[key] = Absent THEN Null ELSE nodo[key]
GetOr(nodo, key, default) == IF nodo[key] = Absent THEN default ELSE nodo[key]

\* truth value of a Python object
Truthy(v) ==
  CASE v.k = "str" -> Len(v.s) > 0
    [] v.k = "int" -> v.n # 0
    [] OTHER -> FALSE

\* x or y
Or(v, w) == IF Truthy(v) THEN v ELSE w

\* str(x)
PyStr(v) ==
  CASE v.k = "str" -> v.s
    [] v.k = "int" -> IntToStr(v.n)
    [] OTHER -> <<"N", "o", "n", "e">>

\* ------------------------------------------------------- exceptions ---
\* an exception is its class and its message, str(e)
NoExc == [type |-> "none", msg |-> ""]
Exc(t, m) == [type |-> t, msg |-> m]

\* int(x): ok with the integer, or the exception int() raises
PyInt(v) ==
  CASE v.k = "int" -> [ok |-> TRUE, n |-> v.n, exc |-> NoExc]
    [] v.k = "str" ->
         IF AllDigits(Unsigned(v.s))
           THEN [ok |-> TRUE,
                 n |-> IF v.s[1] = "-" THEN 0 - DigitsToNat(Unsigned(v.s))
                                       ELSE DigitsToNat(Unsigned(v.s)),
                 exc |-> NoExc]
           ELSE [ok |-> FALSE, n |-> 0,
                 exc |-> Exc("ValueError", "invalid literal for int() with base 10")]
    [] OTHER -> [ok |-> FALSE, n |-> 0,
                 exc |-> Exc("TypeError", "int() argument must be a string, a bytes-like object or a real number, not 'NoneType'")]

\* ------------------------------------------------------- translator ---
\* (the two octets in the other order)
ip_mock_por_nodeidSwapped(node_id) ==
  LET a == (node_id \div 256) % 256
      b == node_id % 256
  IN <<"1", "0", ".", "1", "9", "9", ".">> \o IntToStr(b) \o <<".">> \o IntToStr(a)

\* (the high octet not reduced modulo 256)
ip_mock_por_nodeidWide(node_id) ==
  LET a == node_id \div 256
      b == node_id % 256
  IN <<"1", "0", ".", "1", "9", "9", ".">> \o IntToStr(a) \o <<".">> \o IntToStr(b)

ip_mock_por_nodeid(node_id) ==
  LET a == (node_id \div 256) % 256
      b == node_id % 256
  IN <<"1", "0", ".", "1", "9", "9", ".">> \o IntToStr(a) \o <<".">> \o IntToStr(b)

\* (the status and caption entries in the other order)
VarbindsSwapped(nodo, node_id) ==
  LET caption == PyStr(GetOr(nodo, "Caption", Str(<<"n", "o", "d", "e", "-">> \o IntToStr(node_id))))
      status == Lower(PyStr(GetOr(nodo, "Status", Str(<<"u", "n", "k", "n", "o", "w", "n">>))))
      vendor == PyStr(GetOr(nodo, "Vendor", Str(<<"u", "n", "k", "n", "o", "w", "n">>)))
      node_ip == Or(Get(nodo, "NodeIP"), Str(ip_mock_por_nodeid(node_id))).s
      location == PyStr(Or(Get(nodo, "location"), Str(DEFAULT_LOCATION)))
  IN << [oid |-> "1.3.6.1.2.1.1.3.0", val |-> <<"0">>],
        [oid |-> "1.3.6.1.6.3.1.1.4.1.0", val |-> ENTERPRISE_TRAP_OID],
        [oid |-> "1.3.6.1.6.3.1.1.4.3.0", val |-> "1.3.6.1.4.1.11307"],
        [oid |-> "1.3.6.1.2.1.1.6.0", val |-> location],
        [oid |-> ENTERPRISE_TRAP_OID \o ".2", val |-> caption],
        [oid |-> ENTERPRISE_TRAP_OID \o ".1", val |-> status],
        [oid |-> ENTERPRISE_TRAP_OID \o ".3", val |-> node_ip],
        [oid |-> ENTERPRISE_TRAP_OID \o ".4", val |-> IntToStr(node_id)],
        [oid |-> ENTERPRISE_TRAP_OID \o ".5", val |-> vendor] >>

\* the varbind list of a record whose NodeID is node_id
Varbinds(nodo, node_id) ==
  LET caption == PyStr(GetOr(nodo, "Caption", Str(<<"n", "o", "d", "e", "-">> \o IntToStr(node_id))))
      status == Lower(PyStr(GetOr(nodo, "Status", Str(<<"u", "n", "k", "n", "o", "w", "n">>))))
      vendor == PyStr(GetOr(nodo, "Vendor", Str(<<"u", "n", "k", "n", "o", "w", "n">>)))
      node_ip == Or(Get(nodo, "NodeIP"), Str(ip_mock_por_nodeid(node_id))).s
      location == PyStr(Or(Get(nodo, "location"), Str(DEFAULT_LOCATION)))
  IN << [oid |-> "1.3.6.1.2.1.1.3.0", val |-> <<"0">>],
        [oid |-> "1.3.6.1.6.3.1.1.4.1.0", val |-> ENTERPRISE_TRAP_OID],
        [oid |-> "1.3.6.1.6.3.1.1.4.3.0", val |-> "1.3.6.1.4.1.11307"],
        [oid |-> "1.3.6.1.2.1.1.6.0", val |-> location],
        [oid |-> ENTERPRISE_TRAP_OID \o ".1", val |-> status],
        [oid |-> ENTERPRISE_TRAP_OID \o ".2", val |-> caption],
        [oid |-> ENTERPRISE_TRAP_OID \o ".3", val |-> node_ip],
        [oid |-> ENTERPRISE_TRAP_OID \o ".4", val |-> IntToStr(node_id)],
        [oid |-> ENTERPRISE_TRAP_OID \o ".5", val |-> vendor] >>

\* (a translator that indexes the record and so needs the Caption key)
construir_varbindsStrict(nodo) ==
  LET id == PyInt(Get(nodo, "NodeID"))
  IN IF ~id.ok THEN [ok |-> FALSE, vb |-> <<>>, exc |-> id.exc]
     ELSE IF nodo["Caption"] = Absent
       THEN [ok |-> FALSE, vb |-> <<>>, exc |-> Exc("KeyError", "'Caption'")]
     ELSE [ok |-> TRUE, vb |-> Varbinds(nodo, id.n), exc |-> NoExc]

\* construir_varbinds(nodo): the varbind list, or the exception of int()
construir_varbinds(nodo) ==
  LET id == PyInt(Get(nodo, "NodeID"))
  IN IF id.ok THEN [ok |-> TRUE, vb |-> Varbinds(nodo, id.n), exc |-> NoExc]
              ELSE [ok |-> FALSE, vb |-> <<>>, exc |-> id.exc]

\* ---------------------------------------------------------- fetcher ---
\* The outcome of requests.get: net is "error" when the call itself raises
\* (connection refused, timeout); otherwise status is the HTTP status, json
\* tells what r.json() decodes to ("invalid": it raises) and items is the
\* decoded array when json = "list".
Response(net, status, json, items) ==
  [net |-> net, status |-> status, json |-> json, items |-> items]

\* (a fetcher that rejects a list holding a record whose NodeID does not parse)
obtener_nodosValidate(r) ==
  CASE r.net = "error" ->
         [ok |-> FALSE, data |-> <<>>, exc |-> Exc("ConnectionError", "connection failed")]
    [] r.net # "error" /\ r.status = HTTP_UNAUTHORIZED ->
         [ok |-> FALSE, data |-> <<>>, exc |-> Exc("BifrostAPIError", "Credenciales invalidas (401)")]
    [] r.net # "error" /\ r.status # HTTP_UNAUTHORIZED /\ r.status # HTTP_OK ->
         [ok |-> FALSE, data |-> <<>>,
          exc |-> Exc("BifrostAPIError", "Respuesta inesperada: " \o ToString(r.status))]
    [] OTHER ->
         IF r.json = "invalid"
           THEN [ok |-> FALSE, data |-> <<>>, exc |-> Exc("JSONDecodeError", "Expecting value")]
         ELSE IF r.json # "list"
           THEN [ok |-> FALSE, data |-> <<>>, exc |-> Exc("BifrostAPIError", "El payload no es una lista")]
         ELSE IF \E j \in 1..Len(r.items) : ~PyInt(Get(r.items[j], "NodeID")).ok
           THEN [ok |-> FALSE, data |-> <<>>, exc |-> Exc("BifrostAPIError", "NodeID invalido")]
         ELSE [ok |-> TRUE, data |-> r.items, exc |-> NoExc]

\* (the status checks in the other order)
obtener_nodosStatusFirst(r) ==
  CASE r.net = "error" ->
         [ok |-> FALSE, data |-> <<>>, exc |-> Exc("ConnectionError", "connection failed")]
    [] r.net # "error" /\ r.status # HTTP_OK ->
         [ok |-> FALSE, data |-> <<>>,
          exc |-> Exc("BifrostAPIError", "Respuesta inesperada: " \o ToString(r.status))]
    [] OTHER ->
         IF r.json = "invalid"
           THEN [ok |-> FALSE, data |-> <<>>, exc |-> Exc("JSONDecodeError", "Expecting value")]
         ELSE IF r.json # "list"
           THEN [ok |-> FALSE, data |-> <<>>, exc |-> Exc("BifrostAPIError", "El payload no es una lista")]
         ELSE [ok |-> TRUE, data |-> r.items, exc |-> NoExc]

\* obtener_nodos() on the outcome r: the records, or the exception raised
obtener_nodos(r) ==
  CASE r.net = "error" ->
         [ok |-> FALSE, data |-> <<>>, exc |-> Exc("ConnectionError", "connection failed")]
    [] r.net # "error" /\ r.status = HTTP_UNAUTHORIZED ->
         [ok |-> FALSE, data |-> <<>>, exc |-> Exc("BifrostAPIError", "Credenciales invalidas (401)")]
    [] r.net # "error" /\ r.status # HTTP_UNAUTHORIZED /\ r.status # HTTP_OK ->
         [ok |-> FALSE, data |-> <<>>,
          exc |-> Exc("BifrostAPIError", "Respuesta inesperada: " \o ToString(r.status))]
    [] OTHER ->
         IF r.json = "invalid"
           THEN [ok |-> FALSE, data |-> <<>>, exc |-> Exc("JSONDecodeError", "Expecting value")]
         ELSE IF r.json # "list"
           THEN [ok |-> FALSE, data |-> <<>>, exc |-> Exc("BifrostAPIError", "El payload no es una lista")]
         ELSE [ok |-> TRUE, data |-> r.items, exc |-> NoExc]

\* ----------------------------------------------------------- sender ---
\* What send_notification returns: a 4-tuple (error_indication,
\* error_status, error_index, varbinds) or a bare value.  ind is "None"
\* for no indication, otherwise the indication's text.
SendResult(shape, ind, status, index) ==
  [shape |-> shape, ind |-> ind, status |-> status, index |-> index]

\* error_status.prettyPrint()
PrettyStatus(st) ==
  CASE st = 0 -> "noError"
    [] st = 1 -> "tooBig"
    [] st = 2 -> "noSuchName"
    [] st = 3 -> "badValue"
    [] st = 4 -> "readOnly"
    [] OTHER -> "genErr"

\* the unpacking of res
Unpack(res) ==
  IF res.shape = "tuple4"
    THEN [ind |-> res.ind, status |-> res.status, index |-> res.index]
    ELSE [ind |-> res.ind, status |-> 0, index |-> 0]

\* (the error status looked at before the error indication)
enviar_trapStatusFirst(res) ==
  LET u == Unpack(res)
  IN IF u.status # 0
       THEN Exc("RuntimeError", PrettyStatus(u.status) \o " at " \o ToString(u.index))
     ELSE IF u.ind # "None" THEN Exc("RuntimeError", u.ind)
     ELSE NoExc

\* the exception enviar_trap raises for the result res, NoExc when none
enviar_trap(res) ==
  LET u == Unpack(res)
  IN IF u.ind # "None" THEN Exc("RuntimeError", u.ind)
     ELSE IF u.status # 0
       THEN Exc("RuntimeError", PrettyStatus(u.status) \o " at " \o ToString(u.index))
     ELSE NoExc

\* ------------------------------------------------------------ inputs ---
Chars(a, b, c, d, e, f, g) == <<a, b, c, d, e, f, g>>
Node(id, caption, status, vendor, ip, loc) ==
  [NodeID |-> id, Caption |-> caption, Status |-> status, Vendor |-> vendor,
   NodeIP |-> ip, location |-> loc]

\* {"NodeID": 5, "Caption": "core-sw", "Status": "Down"}
NodeCoreSw ==
  Node(Int_(5), Str(Chars("c", "o", "r", "e", "-", "s", "w")), Str(<<"D", "o", "w", "n">>),
       Absent, Absent, Absent)
\* {"Caption": "x"}: no NodeID
NodeNoId == Node(Absent, Str(<<"x">>), Absent, Absent, Absent, Absent)
\* {"NodeID": "ab"}: a NodeID that is not a number
NodeBadId == Node(Str(<<"a", "b">>), Absent, Absent, Absent, Absent, Absent)
\* {"NodeID": "7", "Vendor": "V", "NodeIP": "1.2.3.4", "location": "dc"}
NodeFull ==
  Node(Str(<<"7">>), Absent, Absent, Str(<<"V">>),
       Str(Chars("1", ".", "2", ".", "3", ".", "4")), Str(<<"d", "c">>))

SampleNodes == {NodeCoreSw, NodeNoId, NodeBadId, NodeFull}
NodeLists == UNION {[1..n -> SampleNodes] : n \in 0..MaxNodes}

Statuses == {HTTP_OK, 204, HTTP_UNAUTHORIZED, 500}
Responses ==
  {Response("error", 0, "invalid", <<>>)}
    \cup {Response("ok", st, j, <<>>) : st \in Statuses, j \in {"invalid", "object"}}
    \cup {Response("ok", st, "list", l) : st \in Statuses, l \in NodeLists}

SendResults ==
  {SendResult("tuple4", ind, st, ix) :
     ind \in {"None", "RequestTimedOut"}, st \in {0, 2}, ix \in {0, 1}}
    \cup {SendResult("bare", ind, 0, 0) : ind \in {"None", "RequestTimedOut"}}

Latencies == 0..MaxLatency

\* ------------------------------------------------------------- state ---
VARIABLES
  pc,         \* where the run is: "fetch", "loop", "send", "await", "sleep",
              \* "print", "except", "exit", "terminated"
  nodos,      \* main's nodos, <<>> until the fetch returned
  i,          \* position of the for loop in nodos, from 1
  vb,         \* main's vb, the varbinds of the node being processed
  resp,       \* obtener_nodos' r, the HTTP outcome
  res,        \* enviar_trap's res, the result of the last notification
  exc,        \* the exception that left main(), NoExc when none
  clock,      \* time.perf_counter(), in ms since the start of the run
  t_trap_start,
  execLog,    \* bifrost_execution.log
  errorLog,   \* bifrost_errors.log
  stdout,     \* the lines printed
  exitCode,   \* exit status of the process, -1 while it runs
  trace,      \* the calls made so far, in order
  delivered   \* the varbind lists of the traps whose send returned without error

vars == <<pc, nodos, i, vb, resp, res, exc, clock, t_trap_start, execLog,
          errorLog, stdout, exitCode, trace, delivered>>

\* a call: what, for which position of nodos, whether it returned normally, when
Ev(op, k, ok, t) == [op |-> op, k |-> k, ok |-> ok, t |-> t]

OK_MARKER == "Ejecucion completada correctamente"
FAIL_MARKER == "Error: "

Init ==
  /\ pc = "fetch"
  /\ nodos = <<>>
  /\ i = 1
  /\ vb = <<>>
  /\ resp = Response("none", 0, "invalid", <<>>)
  /\ res = SendResult("none", "None", 0, 0)
  /\ exc = NoExc
  /\ clock = 0
  /\ t_trap_start = 0
  /\ execLog = <<>>
  /\ errorLog = <<>>
  /\ stdout = <<>>
  /\ exitCode = -1
  /\ trace = <<>>
  /\ delivered = <<>>

\* ----------------------------------------------------------- actions ---
\* where main continues after obtener_nodos: the loop, or, the exception
\* having been re-raised, the except clause of the __main__ block
PcAfterFetchSwallow(ok) == "loop"
PcAfterFetch(ok) == IF ok THEN "loop" ELSE "except"

\* where main continues after enviar_trap: the pacing sleep, or, on an
\* exception, the except clause of the __main__ block
PcAfterSendContinue(e) == "sleep"
PcAfterSendRetry(e) == IF e = NoExc THEN "sleep" ELSE "send"
PcAfterSend(e) == IF e = NoExc THEN "sleep" ELSE "except"

\* main, up to the start of the loop: the fetch and its log entry
Fetch ==
  /\ pc = "fetch"
  /\ \E r \in Responses, lat \in Latencies :
       LET out == obtener_nodos(r)
       IN /\ resp' = r
          /\ clock' = clock + lat
          /\ trace' = Append(trace, Ev("fetch", 0, out.ok, clock))
          /\ IF out.ok
               THEN /\ nodos' = out.data
                    /\ execLog' = Append(execLog,
                         [kind |-> "fetch", nodes |-> Len(out.data), time |-> lat])
                    /\ t_trap_start' = clock + lat
                    /\ pc' = PcAfterFetch(TRUE)
                    /\ UNCHANGED <<exc, errorLog>>
               ELSE /\ errorLog' = Append(errorLog, "Error al obtener nodos: " \o out.exc.msg)
                    /\ exc' = out.exc
                    /\ pc' = PcAfterFetch(FALSE)
                    /\ UNCHANGED <<delivered, nodos, execLog, t_trap_start>>
  /\ UNCHANGED <<i, vb, res, stdout, exitCode, delivered>>

\* (a translation that keeps the varbinds of an earlier node)
TranslateStale ==
  /\ pc = "loop"
  /\ i <= Len(nodos)
  /\ LET out == construir_varbinds(nodos[i])
     IN /\ trace' = Append(trace, Ev("translate", i, out.ok, clock))
        /\ IF out.ok
             THEN /\ vb' = IF vb = <<>> THEN out.vb ELSE vb
                  /\ pc' = "send"
                  /\ UNCHANGED exc
             ELSE /\ exc' = out.exc
                  /\ pc' = "except"
                  /\ UNCHANGED vb
  /\ UNCHANGED <<delivered, nodos, i, resp, res, clock, t_trap_start, execLog, errorLog,
                 stdout, exitCode>>

\* the loop takes the next node and translates it
Translate ==
  /\ pc = "loop"
  /\ i <= Len(nodos)
  /\ LET out == construir_varbinds(nodos[i])
     IN /\ trace' = Append(trace, Ev("translate", i, out.ok, clock))
        /\ IF out.ok
             THEN /\ vb' = out.vb
                  /\ pc' = "send"
                  /\ UNCHANGED exc
             ELSE /\ exc' = out.exc
                  /\ pc' = "except"
                  /\ UNCHANGED vb
  /\ UNCHANGED <<delivered, nodos, i, resp, res, clock, t_trap_start, execLog, errorLog,
                 stdout, exitCode>>

\* enviar_trap is called with vb and hands the notification to the engine
SendStart ==
  /\ pc = "send"
  /\ trace' = Append(trace, Ev("send", i, TRUE, clock))
  /\ pc' = "await"
  /\ UNCHANGED <<delivered, nodos, i, vb, resp, res, exc, clock, t_trap_start, execLog,
                 errorLog, stdout, exitCode>>

\* the notification returns and enviar_trap classifies the result
SendReturn ==
  /\ pc = "await"
  /\ \E r \in SendResults, lat \in Latencies :
       LET e == enviar_trap(r)
       IN /\ res' = r
          /\ clock' = clock + lat
          /\ trace' = Append(trace, Ev("sendret", i, e = NoExc, clock + lat))
          /\ exc' = e
          /\ pc' = PcAfterSend(e)
          /\ delivered' = IF e = NoExc THEN Append(delivered, vb) ELSE delivered
  /\ UNCHANGED <<nodos, i, vb, resp, t_trap_start, execLog, errorLog, stdout,
                 exitCode>>

\* the position the for loop takes after position k
NextIndexSkip(k) == k + 2
NextIndex(k) == k + 1

\* (a pacing sleep between sends only, none after the last node)
SleepBetween ==
  /\ pc = "sleep"
  /\ clock' = IF i < Len(nodos) THEN clock + SLEEP_MS ELSE clock
  /\ trace' = IF i < Len(nodos) THEN Append(trace, Ev("sleep", i, TRUE, clock + SLEEP_MS))
                               ELSE trace
  /\ i' = NextIndex(i)
  /\ pc' = "loop"
  /\ UNCHANGED <<delivered, nodos, vb, resp, res, exc, t_trap_start, execLog, errorLog,
                 stdout, exitCode>>

\* (a loop without the pacing sleep)
SleepNone ==
  /\ pc = "sleep"
  /\ i' = NextIndex(i)
  /\ pc' = "loop"
  /\ UNCHANGED <<delivered, nodos, vb, resp, res, exc, clock, t_trap_start, execLog, errorLog,
                 stdout, exitCode, trace>>

\* await asyncio.sleep(0.02), then the loop advances
Sleep ==
  /\ pc = "sleep"
  /\ clock' = clock + SLEEP_MS
  /\ trace' = Append(trace, Ev("sleep", i, TRUE, clock + SLEEP_MS))
  /\ i' = NextIndex(i)
  /\ pc' = "loop"
  /\ UNCHANGED <<delivered, nodos, vb, resp, res, exc, t_trap_start, execLog, errorLog,
                 stdout, exitCode>>

\* (a loop left before its list is exhausted)
SummaryEarly ==
  /\ pc = "loop"
  /\ execLog' = Append(execLog,
       [kind |-> "send", nodes |-> Len(nodos), time |-> clock - t_trap_start])
  /\ pc' = "print"
  /\ UNCHANGED <<delivered, nodos, i, vb, resp, res, exc, clock, t_trap_start, errorLog,
                 stdout, exitCode, trace>>

\* the loop is exhausted: the send entry of the execution log
Summary ==
  /\ pc = "loop"
  /\ i > Len(nodos)
  /\ execLog' = Append(execLog,
       [kind |-> "send", nodes |-> Len(nodos), time |-> clock - t_trap_start])
  /\ pc' = "print"
  /\ UNCHANGED <<delivered, nodos, i, vb, resp, res, exc, clock, t_trap_start, errorLog,
                 stdout, exitCode, trace>>

\* the last statement of main
PrintOk ==
  /\ pc = "print"
  /\ stdout' = Append(stdout, OK_MARKER)
  /\ pc' = "exit"
  /\ UNCHANGED <<delivered, nodos, i, vb, resp, res, exc, clock, t_trap_start, execLog,
                 errorLog, exitCode, trace>>

\* (an except clause that starts the run again)
HandlerRestart ==
  /\ pc = "except"
  /\ errorLog' = Append(errorLog, "Fallo en BIFROST sender: " \o exc.msg)
  /\ stdout' = Append(stdout, FAIL_MARKER \o exc.msg)
  /\ pc' = "fetch"
  /\ UNCHANGED <<delivered, nodos, i, vb, resp, res, exc, clock, t_trap_start, execLog,
                 exitCode, trace>>

\* (an except clause that also writes the send entry)
HandlerSummary ==
  /\ pc = "except"
  /\ errorLog' = Append(errorLog, "Fallo en BIFROST sender: " \o exc.msg)
  /\ stdout' = Append(stdout, FAIL_MARKER \o exc.msg)
  /\ execLog' = Append(execLog,
       [kind |-> "send", nodes |-> Len(nodos), time |-> clock - t_trap_start])
  /\ pc' = "exit"
  /\ UNCHANGED <<delivered, nodos, i, vb, resp, res, exc, clock, t_trap_start, exitCode, trace>>

\* the except clause of the __main__ block
Handler ==
  /\ pc = "except"
  /\ errorLog' = Append(errorLog, "Fallo en BIFROST sender: " \o exc.msg)
  /\ stdout' = Append(stdout, FAIL_MARKER \o exc.msg)
  /\ pc' = "exit"
  /\ UNCHANGED <<delivered, nodos, i, vb, resp, res, exc, clock, t_trap_start, execLog,
                 exitCode, trace>>

\* the script ends after the try statement, whichever branch ran
Exit ==
  /\ pc = "exit"
  /\ exitCode' = 0
  /\ pc' = "terminated"
  /\ UNCHANGED <<delivered, nodos, i, vb, resp, res, exc, clock, t_trap_start, execLog,
                 errorLog, stdout, trace>>

Next ==
  \/ Fetch
  \/ Translate
  \/ SendStart
  \/ SendReturn
  \/ Sleep
  \/ Summary
  \/ PrintOk
  \/ Handler
  \/ Exit

Spec == Init /\ [][Next]_vars

\* ------------------------------------------------------------ phases ---
Fetching == pc = "fetch"
Sending == pc \in {"loop", "send", "await", "sleep"}
Done == pc \in {"print", "exit", "terminated"} /\ exc = NoExc
Aborted == exc # NoExc

\* -------------------------------------------------------- properties ---
\* C1: abort on first failure.  Once the translation or the send of the
\* node at position k has failed, the run is Aborted, that failure is the
\* last call of the run, and no translation or send was attempted for a
\* position after k.
AbortOnFirstFailure ==
  \A p \in 1..Len(trace) :
    (trace[p].op \in {"translate", "sendret"} /\ ~trace[p].ok) =>
      /\ Aborted
      /\ p = Len(trace)
      /\ \A q \in 1..Len(trace) :
           trace[q].op \in {"translate", "send"} => trace[q].k <= trace[p].k

\* three nodes, the send of the second failed, the run is over
AbortOnFirstFailureWitness ==
  /\ pc = "terminated"
  /\ Len(nodos) = 3
  /\ trace[Len(trace)] = Ev("sendret", 2, FALSE, clock)

\* positions of the trace holding a call of kind op, and those that returned
\* normally
Calls(op) == {p \in 1..Len(trace) : trace[p].op = op}
OkCalls(op) == {p \in Calls(op) : trace[p].ok}
\* entries of the execution log of one kind
Entries(kind) == {j \in 1..Len(execLog) : execLog[j].kind = kind}
Printed(line) == \E j \in 1..Len(stdout) : stdout[j] = line

\* C2 (as amended): a run that ends in Aborted never writes the send entry
\* (send duration, nodes sent) and never prints the success marker; the
\* fetch entry (fetch duration, node count) is in the execution log exactly
\* when the fetch had succeeded.  Aborted is terminal and the execution log
\* does not change after it.
AbortedNoSendSummary ==
  /\ [](Aborted =>
         /\ Entries("send") = {}
         /\ ~Printed(OK_MARKER)
         /\ Entries("fetch") = (IF trace[1].ok THEN {1} ELSE {})
         /\ Len(execLog) = Cardinality(Entries("fetch")))
  /\ [][Aborted => (Aborted' /\ execLog' = execLog)]_vars

\* a run aborted by a failed send, after a successful fetch, has ended
AbortedNoSendSummaryWitness ==
  /\ pc = "terminated"
  /\ Aborted
  /\ trace[1].ok
  /\ ~trace[Len(trace)].ok

\* C2 (as stated): an Aborted run has put no fetch duration, no send
\* duration and no node count in the execution log, and has not reported
\* success.
AbortedEmptyExecutionLog ==
  Aborted => (execLog = <<>> /\ ~Printed(OK_MARKER))

\* C3: sequential ordered delivery.  The j-th send attempt is for the node
\* at position j of the fetched list, so the nodes sent are a prefix of the
\* list; at most one send has started and not returned; the send of a node
\* starts only after the send of the node before it returned successfully.
SequentialOrderedDelivery ==
  LET IsSend(e) == e.op = "send"
      sends == SelectSeq(trace, IsSend)
  IN /\ Len(sends) <= Len(nodos)
     /\ \A j \in 1..Len(sends) : sends[j].k = j
     /\ [j \in 1..Len(sends) |-> nodos[sends[j].k]] = SubSeq(nodos, 1, Len(sends))
     /\ Cardinality(Calls("send")) - Cardinality(Calls("sendret")) \in {0, 1}
     /\ (Cardinality(Calls("send")) - Cardinality(Calls("sendret")) = 1) <=> (pc = "await")
     /\ \A p \in Calls("send") :
          trace[p].k > 1 =>
            \E q \in 1..(p - 1) : trace[q].op = "sendret" /\ trace[q].ok
                                  /\ trace[q].k = trace[p].k - 1

\* the send of the third node is in progress
SequentialOrderedDeliveryWitness ==
  /\ pc = "await"
  /\ i = 3

\* C4: no retry.  No position of the list is handed to enviar_trap twice,
\* no send follows a failed send, and there are never more send attempts
\* than fetched nodes.
NoRetry ==
  /\ \A p, q \in Calls("send") : trace[p].k = trace[q].k => p = q
  /\ \A p \in Calls("sendret") :
       ~trace[p].ok => \A q \in Calls("send") : q < p
  /\ Cardinality(Calls("send")) <= Len(nodos)

\* two nodes, the send of the second failed, the run is over
NoRetryWitness ==
  /\ pc = "terminated"
  /\ Len(nodos) = 2
  /\ Cardinality(Calls("send")) = 2
  /\ \E p \in Calls("sendret") : ~trace[p].ok

\* C5: the fetch is the first call of a run and is made once.  A failed
\* fetch leaves the run Aborted with no translation, no send and no pacing
\* delay and with nothing in the execution log; the fetch entry is written,
\* with the number of fetched nodes, and the loop is entered only when the
\* fetch succeeded.
FetchOnceFirst ==
  /\ Cardinality(Calls("fetch")) = (IF Fetching THEN 0 ELSE 1)
  /\ Len(trace) > 0 => trace[1].op = "fetch"
  /\ (Len(trace) > 0 /\ ~trace[1].ok) =>
       /\ Aborted
       /\ Len(trace) = 1
       /\ nodos = <<>>
       /\ execLog = <<>>
  /\ (Sending \/ Done) => (trace[1].ok /\ Entries("fetch") = {1})
  /\ \A j \in Entries("fetch") :
       /\ trace[1].ok
       /\ execLog[j].nodes = Len(nodos)
       /\ execLog[j].time = t_trap_start - trace[1].t

\* the API answered 401 and the run is over
FetchOnceFirstWitness ==
  /\ pc = "terminated"
  /\ resp.net = "ok"
  /\ resp.status = HTTP_UNAUTHORIZED
  /\ Len(resp.items) = 2

\* C6: a run is Done only when every fetched node was translated and sent
\* successfully, for any number of nodes; the send entry is written at most
\* once, exactly once when Done, with a node count equal to the number of
\* fetched nodes and to the number of successful sends; the success marker
\* is printed only after it.
DoneAfterAllSent ==
  /\ Cardinality(Entries("send")) <= 1
  /\ Done =>
       /\ \A k \in 1..Len(nodos) :
            /\ \E p \in OkCalls("translate") : trace[p].k = k
            /\ \E p \in OkCalls("sendret") : trace[p].k = k
       /\ Cardinality(Entries("send")) = 1
  /\ \A j \in Entries("send") :
       /\ Done
       /\ j = Len(execLog)
       /\ execLog[j].nodes = Len(nodos)
       /\ execLog[j].nodes = Cardinality(OkCalls("sendret"))
  /\ Printed(OK_MARKER) => (Entries("send") # {} /\ Len(stdout) = 1)

\* a run over three nodes has printed the success marker
DoneAfterAllSentWitness ==
  /\ Done
  /\ Len(nodos) = 3
  /\ Printed(OK_MARKER)

\* C7: pacing.  Between any two send attempts of a run there is a pacing
\* sleep, and the later attempt starts at least 20 ms after the earlier one;
\* a run with N successful sends has slept at least N-1 times, and the send
\* duration it logs is at least (N-1) * 20 ms.
Pacing ==
  /\ \A p, q \in Calls("send") :
       p < q =>
         /\ \E r \in Calls("sleep") : p < r /\ r < q
         /\ trace[q].t - trace[p].t >= SLEEP_MS * (trace[q].k - trace[p].k)
  /\ Cardinality(Calls("sleep")) >= Cardinality(OkCalls("sendret")) - 1
  /\ \A j \in Entries("send") :
       execLog[j].time >= (Cardinality(OkCalls("sendret")) - 1) * SLEEP_MS

\* three nodes were sent and the send entry is written
PacingWitness ==
  /\ pc = "print"
  /\ Cardinality(OkCalls("sendret")) = 3

\* C8: a run ends either completed, with the success marker alone, or
\* failed, with the failure marker and the error detail, an entry in the
\* error log and a non-zero exit status; never with both markers, and never
\* failed with exit status 0.
ExitBehaviour ==
  pc = "terminated" =>
    \/ /\ ~Aborted
       /\ stdout = <<OK_MARKER>>
       /\ exitCode = 0
    \/ /\ Aborted
       /\ stdout = <<FAIL_MARKER \o exc.msg>>
       /\ errorLog # <<>>
       /\ errorLog[Len(errorLog)] = "Fallo en BIFROST sender: " \o exc.msg
       /\ exitCode # 0

LogBeforePropagate ==
  (pc = "except" /\ trace[Len(trace)].op \in {"fetch", "sendret"}) =>
    errorLog # <<>>

\* ----------------------------------------------- the translator alone ---
\* Records with every kind of value in every field: missing, null, empty,
\* text, number.
IdValues ==
  {Absent, Null, Int_(0), Int_(5), Int_(300), Int_(0 - 1), Str(<<"7">>),
   Str(<<"-", "1", "2">>), Str(<<"a", "b">>), Str(<<>>), Str(<<"+">>)}
CaptionValues == {Absent, Null, Str(<<>>), Str(Chars("c", "o", "r", "e", "-", "s", "w"))}
StatusValues == {Absent, Null, Str(<<"D", "o", "w", "n">>), Str(<<"u", "P", "-", "2">>)}
VendorValues == {Absent, Null, Str(<<"V">>)}
NodeIPValues == {Absent, Null, Str(<<>>), Str(Chars("1", ".", "2", ".", "3", ".", "4"))}
LocationValues == {Absent, Null, Str(<<>>), Str(<<"d", "c">>)}

TranslateInputs ==
  {Node(id, c, st, v, ip, loc) :
     id \in IdValues, c \in CaptionValues, st \in StatusValues, v \in VendorValues,
     ip \in NodeIPValues, loc \in LocationValues}

\* the run after the fetch returned the one record nodo
AfterFetchOf(nodo) ==
  /\ pc = "loop"
  /\ nodos = <<nodo>>
  /\ i = 1
  /\ vb = <<>>
  /\ resp = Response("ok", HTTP_OK, "list", <<nodo>>)
  /\ res = SendResult("none", "None", 0, 0)
  /\ exc = NoExc
  /\ clock = 0
  /\ t_trap_start = 0
  /\ execLog = <<[kind |-> "fetch", nodes |-> 1, time |-> 0]>>
  /\ errorLog = <<>>
  /\ stdout = <<>>
  /\ exitCode = -1
  /\ trace = <<Ev("fetch", 0, TRUE, 0)>>
  /\ delivered = <<>>

InitTranslate == \E nodo \in TranslateInputs : AfterFetchOf(nodo)
NextTranslate == Translate
SpecTranslate == InitTranslate /\ [][NextTranslate]_vars

\* the number a text of decimal digits, with an optional minus sign, denotes;
\* -1000000 when it is no such text
Denotes(t) ==
  IF AllDigits(t) THEN DigitsToNat(t)
  ELSE IF Len(t) > 1 /\ t[1] = "-" /\ AllDigits(Tail(t)) THEN 0 - DigitsToNat(Tail(t))
  ELSE 0 - 1000000

\* the integer a NodeID value is coerced to, for the values that have one
IdOf(v) ==
  CASE v = Str(<<"7">>) -> 7
    [] v = Str(<<"-", "1", "2">>) -> 0 - 12
    [] OTHER -> v.n

\* C12: for a record whose NodeID parses, construir_varbinds returns 9
\* varbinds with the object identifiers sysUpTime.0, snmpTrapOID.0, the
\* generic-trap OID, sysLocation.0 and <root>.1 to <root>.5 in this order;
\* the first three values are "0", the enterprise root OID and
\* "1.3.6.1.4.1.11307"; the eighth is the NodeID as decimal text; and for
\* {NodeID: 5, Caption: "core-sw", Status: "Down"} entries 5 to 9 are
\* "down", "core-sw", "10.199.0.5", "5", "unknown".
NineVarbindsInOrder ==
  pc = "send" =>
    /\ Len(vb) = 9
    /\ [j \in 1..9 |-> vb[j].oid] =
         <<"1.3.6.1.2.1.1.3.0", "1.3.6.1.6.3.1.1.4.1.0", "1.3.6.1.6.3.1.1.4.3.0",
           "1.3.6.1.2.1.1.6.0", "1.3.6.1.4.1.11307.10.1", "1.3.6.1.4.1.11307.10.2",
           "1.3.6.1.4.1.11307.10.3", "1.3.6.1.4.1.11307.10.4",
           "1.3.6.1.4.1.11307.10.5">>
    /\ vb[1].val = <<"0">>
    /\ vb[2].val = "1.3.6.1.4.1.11307.10"
    /\ vb[3].val = "1.3.6.1.4.1.11307"
    /\ Denotes(vb[8].val) = IdOf(nodos[i].NodeID)
    /\ nodos[i] = NodeCoreSw =>
         /\ vb[5].val = <<"d", "o", "w", "n">>
         /\ vb[6].val = <<"c", "o", "r", "e", "-", "s", "w">>
         /\ vb[7].val = <<"1", "0", ".", "1", "9", "9", ".", "0", ".", "5">>
         /\ vb[8].val = <<"5">>
         /\ vb[9].val = <<"u", "n", "k", "n", "o", "w", "n">>

\* the record {NodeID: 5, Caption: "core-sw", Status: "Down"} is translated
NineVarbindsInOrderWitness ==
  /\ pc = "send"
  /\ nodos = <<NodeCoreSw>>
  /\ Len(vb) = 9

\* u is t with every upper-case letter replaced by its lower-case letter
IsLowerOf(u, t) ==
  /\ Len(u) = Len(t)
  /\ \A j \in 1..Len(t) :
       IF \E a \in 1..26 : UpperAlpha[a] = t[j]
         THEN \E a \in 1..26 : UpperAlpha[a] = t[j] /\ LowerAlpha[a] = u[j]
         ELSE u[j] = t[j]

\* the text of a field that is present: its own text, "None" for a null
TextOf(v) == IF v.k = "str" THEN v.s ELSE <<"N", "o", "n", "e">>

\* a field that is missing, null or empty
Falsy(v) == v \in {Absent, Null, Str(<<>>)}

\* C13 (as amended): for Status, Caption and Vendor the value is the
\* record's own text whenever the key is present (Status lower-cased, a null
\* as "None") and the default ("unknown", "node-<NodeID>", "unknown")
\* exactly when the key is missing; for location and NodeIP the value is the
\* record's own text when it is present and not empty, and the default (the
\* configured location, the synthetic address) when the field is missing,
\* null or empty.
OptionalFieldResolution ==
  pc = "send" =>
    LET nodo == nodos[i]
    IN /\ IF nodo.Status = Absent
            THEN vb[5].val = <<"u", "n", "k", "n", "o", "w", "n">>
            ELSE IsLowerOf(vb[5].val, TextOf(nodo.Status))
       /\ IF nodo.Caption = Absent
            THEN vb[6].val = <<"n", "o", "d", "e", "-">> \o vb[8].val
            ELSE vb[6].val = TextOf(nodo.Caption)
       /\ IF nodo.Vendor = Absent
            THEN vb[9].val = <<"u", "n", "k", "n", "o", "w", "n">>
            ELSE vb[9].val = TextOf(nodo.Vendor)
       /\ IF Falsy(nodo.location)
            THEN vb[4].val = <<"u", "n", "k", "n", "o", "w", "n">>
            ELSE vb[4].val = nodo.location.s
       /\ IF Falsy(nodo.NodeIP)
            THEN vb[7].val = ip_mock_por_nodeid(Denotes(vb[8].val))
            ELSE vb[7].val = nodo.NodeIP.s

\* a record with a null Caption, an empty NodeIP and a null location is
\* translated
OptionalFieldResolutionWitness ==
  /\ pc = "send"
  /\ nodos[i].Caption = Null
  /\ nodos[i].Status = Str(<<"u", "P", "-", "2">>)
  /\ nodos[i].NodeIP = Str(<<>>)
  /\ nodos[i].location = Null

\* C13 (as stated): each of the five values is the record's own value
\* whenever the field is present, and the default exactly when the field is
\* missing.
OptionalFieldDefaultOnlyWhenMissing ==
  pc = "send" =>
    LET nodo == nodos[i]
    IN /\ nodo.Status = Absent <=> vb[5].val = <<"u", "n", "k", "n", "o", "w", "n">>
       /\ nodo.Status.k = "str" => IsLowerOf(vb[5].val, nodo.Status.s)
       /\ nodo.Caption = Absent <=> vb[6].val = <<"n", "o", "d", "e", "-">> \o vb[8].val
       /\ nodo.Caption.k = "str" => vb[6].val = nodo.Caption.s
       /\ nodo.Vendor = Absent <=> vb[9].val = <<"u", "n", "k", "n", "o", "w", "n">>
       /\ nodo.Vendor.k = "str" => vb[9].val = nodo.Vendor.s
       /\ nodo.location = Absent <=> vb[4].val = <<"u", "n", "k", "n", "o", "w", "n">>
       /\ nodo.location.k = "str" => vb[4].val = nodo.location.s
       /\ nodo.NodeIP = Absent <=> vb[7].val = ip_mock_por_nodeid(Denotes(vb[8].val))
       /\ nodo.NodeIP.k = "str" => vb[7].val = nodo.NodeIP.s

\* a NodeID value that int() accepts: a number, or a text of decimal digits
\* with an optional sign
Coercible(v) ==
  \/ v.k = "int"
  \/ /\ v.k = "str"
     /\ \E first \in {1, 2} :
          /\ first <= Len(v.s)
          /\ first = 2 => v.s[1] \in {"+", "-"}
          /\ \A j \in first..Len(v.s) : IsDigit(v.s[j])

MaxBelow == 300      \* how far below 0 the NodeIDs tried go
MaxAbove == 300      \* how far above 65535 the NodeIDs tried go

\* the number of NodeIDs two octets tell apart
IdLimit == 256 * 256
IdRange == (0 - MaxBelow)..(IdLimit - 1 + MaxAbove)

\* a record with a NodeID and nothing else, so that the address is synthetic
InitIp == \E id \in IdRange : AfterFetchOf(Node(Int_(id), Absent, Absent, Absent, Absent, Absent))
NextIp == Translate
SpecIp == InitIp /\ [][NextIp]_vars

\* the texts between the dots of a dotted text
RECURSIVE SplitDots(_)
SplitDots(s) ==
  IF \A j \in 1..Len(s) : s[j] # "."
    THEN <<s>>
    ELSE LET d == CHOOSE j \in 1..Len(s) : s[j] = "." /\ \A h \in 1..(j - 1) : s[h] # "."
         IN <<SubSeq(s, 1, d - 1)>> \o SplitDots(SubSeq(s, d + 1, Len(s)))

\* a decimal text without a leading zero
Canonical(t) == AllDigits(t) /\ (Len(t) = 1 \/ t[1] # "0")

\* C14: for a NodeID in 0..65535 and a record without NodeIP, the <root>.3
\* value is the text "10.199.a.b" with a = (NodeID // 256) mod 256 and
\* b = NodeID mod 256, both in 0..255.
SyntheticIp ==
  (pc = "send" /\ nodos[i].NodeIP = Absent /\ nodos[i].NodeID.k = "int"
     /\ nodos[i].NodeID.n \in 0..(IdLimit - 1)) =>
    LET id == nodos[i].NodeID.n
        parts == SplitDots(vb[7].val)
    IN /\ Len(parts) = 4
       /\ parts[1] = <<"1", "0">>
       /\ parts[2] = <<"1", "9", "9">>
       /\ Canonical(parts[3])
       /\ Canonical(parts[4])
       /\ Denotes(parts[3]) = (id \div 256) % 256
       /\ Denotes(parts[4]) = id % 256
       /\ Denotes(parts[3]) \in 0..255
       /\ Denotes(parts[4]) \in 0..255

\* NodeID 65535, the last of the range, is translated
SyntheticIpWitness ==
  /\ pc = "send"
  /\ nodos[i].NodeID = Int_(IdLimit - 1)
  /\ vb[7].val = <<"1", "0", ".", "1", "9", "9", ".", "2", "5", "5", ".", "2", "5", "5">>

\* C20: the synthetic address is "10.199.a.b" in canonical decimal with
\* 256 * a + b = NodeID mod 65536.  So the address of a NodeID in 0..65535
\* gives the NodeID back, which makes distinct NodeIDs of that range get
\* distinct addresses, and NodeIDs congruent modulo 65536 get the same
\* address.
CollisionFreeInRange ==
  (pc = "send" /\ nodos[i].NodeIP = Absent /\ nodos[i].NodeID.k = "int") =>
    LET id == nodos[i].NodeID.n
        parts == SplitDots(vb[7].val)
    IN /\ Len(parts) = 4
       /\ parts[1] = <<"1", "0">>
       /\ parts[2] = <<"1", "9", "9">>
       /\ Canonical(parts[3])
       /\ Canonical(parts[4])
       /\ Denotes(parts[4]) < 256
       /\ 256 * Denotes(parts[3]) + Denotes(parts[4]) = id % IdLimit
       /\ id \in 0..(IdLimit - 1) => 256 * Denotes(parts[3]) + Denotes(parts[4]) = id

\* NodeID 65541 gets 10.199.0.5, the address of NodeID 5
CollisionFreeInRangeWitness ==
  /\ pc = "send"
  /\ nodos[i].NodeID = Int_(IdLimit + 5)
  /\ vb[7].val = <<"1", "0", ".", "1", "9", "9", ".", "0", ".", "5">>

\* C15: purity across a run.  The varbind list handed to the sender, and
\* the one delivered, for the node at a position is construir_varbinds of
\* that node's record; two positions holding the same record deliver the
\* same list, whatever was translated, sent or delivered before.
PureAcrossRun ==
  /\ Len(delivered) <= Len(nodos)
  /\ \A j \in 1..Len(delivered) : delivered[j] = construir_varbinds(nodos[j]).vb
  /\ pc \in {"send", "await", "sleep"} => vb = construir_varbinds(nodos[i]).vb
  /\ \A j, k \in 1..Len(delivered) : nodos[j] = nodos[k] => delivered[j] = delivered[k]

\* three traps delivered, the first and the third for the same record
PureAcrossRunWitness ==
  /\ pc = "terminated"
  /\ Len(delivered) = 3
  /\ nodos[1] = nodos[3]
  /\ nodos[1] # nodos[2]

\* --------------------------------------------------------- termination ---
\* Every call of the run returns: the fetch is bounded by its timeout, the
\* loop is over a finite list, and asyncio.run drives main until it ends.
FairSpec == Spec /\ WF_vars(Next)

Phase ==
  IF Aborted THEN "Aborted"
  ELSE IF Fetching THEN "Fetching"
  ELSE IF Sending THEN "Sending"
  ELSE "Done"

\* the run has reported its outcome: the send entry is written, or the
\* except clause has logged and printed the failure
Reported == Done \/ (Aborted /\ pc \in {"exit", "terminated"})

\* C17: every run ends, after at most one fetch and at most one send
\* attempt per fetched node; its phases follow Fetching -> Sending -> Done
\* or Aborted, or Fetching -> Aborted; and once Done or Aborted is reached
\* and reported there is no further fetch, translation, send or log entry.
RunTerminates ==
  /\ <>(pc = "terminated" /\ Reported)
  /\ [](/\ Cardinality(Calls("fetch")) <= 1
        /\ Cardinality(Calls("send")) <= Len(nodos)
        /\ Done => ~Aborted)
  /\ [][(<<Phase, Phase'>> \in
           {<<"Fetching", "Fetching">>, <<"Fetching", "Sending">>,
            <<"Fetching", "Aborted">>, <<"Sending", "Sending">>,
            <<"Sending", "Done">>, <<"Sending", "Aborted">>,
            <<"Done", "Done">>, <<"Aborted", "Aborted">>})]_vars
  /\ [][Reported =>
          /\ Reported'
          /\ trace' = trace
          /\ execLog' = execLog
          /\ errorLog' = errorLog
          /\ delivered' = delivered]_vars

\* a run over three nodes has ended
RunTerminatesWitness ==
  /\ pc = "terminated"
  /\ Len(nodos) = 3
  /\ Cardinality(Calls("send")) = 3

\* C18: records are validated one at a time, by the loop.  A list is
\* fetched successfully whatever its records hold; a translation fails at
\* the first position whose NodeID does not parse, after the nodes before it
\* were sent.  When the run aborts in the loop at position i, the traps
\* delivered are exactly those of positions 1 to i-1, in order, and a
\* delivered trap is never taken back.
LazyValidation ==
  /\ [](/\ (~Fetching /\ resp.net = "ok" /\ resp.status = HTTP_OK /\ resp.json = "list") =>
             (trace[1].ok /\ nodos = resp.items)
        /\ \A p \in Calls("translate") :
             ~trace[p].ok =>
               /\ ~Coercible(nodos[trace[p].k].NodeID)
               /\ \A j \in 1..(trace[p].k - 1) :
                    /\ Coercible(nodos[j].NodeID)
                    /\ \E q \in OkCalls("sendret") : q < p /\ trace[q].k = j
        /\ (Aborted /\ trace[1].ok) =>
             /\ Len(delivered) = i - 1
             /\ Cardinality(OkCalls("sendret")) = i - 1
             /\ delivered = [j \in 1..(i - 1) |-> construir_varbinds(nodos[j]).vb])
  /\ [][/\ Len(delivered') >= Len(delivered)
        /\ SubSeq(delivered', 1, Len(delivered)) = delivered]_vars

\* the third record has no usable NodeID: two traps are out when the run ends
LazyValidationWitness ==
  /\ pc = "terminated"
  /\ Len(nodos) = 3
  /\ trace[Len(trace)] = Ev("translate", 3, FALSE, clock)
  /\ Len(delivered) = 2

\* C19: a pacing sleep follows each send that returned without error, the
\* last one included, and follows nothing else.  A run that is Done over N
\* nodes has slept exactly N times, the last time before the send entry,
\* whose duration is at least N * 20 ms; a failed send is followed by no
\* sleep, so a run aborted at position i has slept exactly i-1 times.
PacingAfterEachSend ==
  /\ Cardinality(Calls("sleep")) =
       Cardinality(OkCalls("sendret")) - (IF pc = "sleep" THEN 1 ELSE 0)
  /\ \A p \in Calls("sleep") :
       /\ p > 1
       /\ trace[p - 1].op = "sendret"
       /\ trace[p - 1].ok
       /\ trace[p - 1].k = trace[p].k
       /\ trace[p].t - trace[p - 1].t = SLEEP_MS
  /\ \A p \in Calls("sendret") : ~trace[p].ok => p = Len(trace)
  /\ Done =>
       /\ Cardinality(Calls("sleep")) = Len(nodos)
       /\ Len(nodos) > 0 => trace[Len(trace)] = Ev("sleep", Len(nodos), TRUE, clock)
       /\ \A j \in Entries("send") : execLog[j].time >= Len(nodos) * SLEEP_MS
  /\ (Aborted /\ trace[1].ok) => Cardinality(Calls("sleep")) = i - 1

\* a run over three nodes is done after three sleeps
PacingAfterEachSendWitness ==
  /\ pc = "terminated"
  /\ Done
  /\ Cardinality(Calls("sleep")) = 3
====
